---------------------------- MODULE Spec2Model ----------------------------
(***************************************************************************)
(* SomniaStream (src/main.go): poll jobs read chain state from an upstream *)
(* RPC endpoint and publish it on NATS JetStream subjects; one SSE relay   *)
(* per subscriber connection tails a subject and writes every message it   *)
(* is handed to the subscriber.                                            *)
(*                                                                         *)
(* State machines that share the module's variables:                        *)
(*   SpecBlocks  the Blocks poll job (monitorBlocks, publishLatestBlock),  *)
(*               one action per blocking call of a tick;                   *)
(*   SpecRelay   the fan-out bridge (handleSSEStream) with the poll jobs   *)
(*               abstracted to their js.Publish calls; FairRelay and       *)
(*               SlowRelay add the fairness of the Go scheduler and of the *)
(*               broker's push delivery; SpecSignal and FairSignal add the *)
(*               shutdown signal of main.                                  *)
(*   SpecJobs    the five monitor loops; SpecCycles, SpecStats, SpecTicks  *)
(*               and SpecLogsRange whole cycles of the publish functions;  *)
(*   SpecBoot    the startup of main; SpecResolve the stateless endpoints; *)
(*   SpecClient  the dashboard client (src/frontend/app.js); SpecFeed its  *)
(*               feeds under one connection.                               *)
(***************************************************************************)
EXTENDS Naturals, Sequences, FiniteSets

(* ------------------------------ bounds -------------------------------- *)
\* Head heights the upstream may report: 0..MaxHeight.
MaxHeight == 3
\* Ticks of the Blocks job that a behaviour records.
MaxTicks == 3
\* Messages the poll jobs publish in a behaviour of the relay.
MaxPublished == 2

VARIABLES
  \* ---- durable log (JetStream) ----
  log,              \* subject -> sequence of payloads, in publish order
  \* ---- Blocks poll job ----
  lastBlockNumber,  \* monitorBlocks' cursor (main.go:210)
  bpc,              \* position inside publishLatestBlock: idle/refetch/publish
  currentBlockNumber, \* height read by the tick in progress (main.go:303)
  tickBefore,       \* history: cursor and last published height at tick start
  ticks,            \* history: one record per finished tick
  \* ---- fan-out bridge ----
  hpc,              \* per connection: position of handleSSEStream
  subject,          \* per connection: resolved subject
  sub,              \* per connection: "nil" | "active" | "closed"
  startSeq,         \* per connection: first stream sequence of its consumer
  nextSeq,          \* per connection: next stream sequence to hand over
  cb,               \* per connection: its callback is running
  cur,              \* per connection: message the callback is handling
  trace,            \* per connection: write/flush/ack calls made, in order
  reqDone,          \* per connection: request context cancelled
  subAt,            \* history: publish counter when the subscription was made
  nextId,           \* payload of the next message the jobs publish
  ctxCancelled,     \* main's shared context cancelled (main.go:613)
  atSignal,         \* history: connections whose relay was open at the signal
  \* ---- the five poll loops (monitorRPC) ----
  jpc,              \* per job: select | read | publish | exited
  inflight,         \* per job: calls of its publish function that are running
  lastFail,         \* history: the job whose cycle failed last, or "none"
  \* ---- one cycle of a poll job ----
  cycle,            \* the last whole cycle run: its inputs, its js.Publish calls
  \* ---- the process: startup and the stateless endpoints ----
  spc,              \* position of main: the startup step to take next
  bootLog,          \* history: the startup steps taken and their results
  jobsStarted,      \* monitorRPC has been started
  serving,          \* router.Run is accepting requests
  accepted,         \* subscriber requests accepted so far
  cycles,           \* poll cycles started so far
  resolved,         \* history: <<name, subject>> for each name resolved so far
  listing,          \* the "streams" map of the last /streams response
  \* ---- the dashboard client (frontend/app.js) ----
  currentStream,    \* this.currentStream: the tab shown
  isConnected,      \* this.isConnected
  eventSources,     \* this.eventSources: stream -> index in sources, 0 if none
  sources,          \* the EventSource objects created: stream and readyState
  timers,           \* setTimeout(connect, 100) callbacks not yet run
  feeds,            \* per tab: the children of its feed element, first first
  messageCount,     \* this.messageCount
  arrived,          \* history: per tab, the items put in its feed since the
                    \* last clear, in order of arrival
  received,         \* history: messages received so far
  bursts,           \* history: runs of messages received so far
  lastMessage       \* history: the source and the tab of the last message

blocksVars == <<lastBlockNumber, bpc, currentBlockNumber, tickBefore, ticks>>
relayVars == <<hpc, subject, sub, startSeq, nextSeq, cb, cur, trace, reqDone,
               subAt, nextId, ctxCancelled, atSignal>>
pollVars == <<jpc, inflight, lastFail, cycle>>
procVars == <<spc, bootLog, jobsStarted, serving, accepted, cycles,
              resolved, listing>>
clientVars == <<currentStream, isConnected, eventSources, sources, timers,
                feeds, messageCount, arrived, received, bursts, lastMessage>>
vars == <<log, blocksVars, relayVars, pollVars, procVars, clientVars>>

(* ------------------------------ subjects ------------------------------ *)
\* Subjects of the four JetStream streams (setupJetStreams).
Subjects ==
  {"eth.blocks.full", "eth.blocks", "eth.pending", "eth.logs",
   "eth.network", "eth.gasPrice"}

\* Variant: a resolver that rejects an unknown name with an empty subject.
getStreamSubjectNoDefault(stream) ==
  CASE stream = "blocks" -> "eth.blocks.full"
    [] stream = "pending" -> "eth.pending"
    [] stream = "logs" -> "eth.logs"
    [] stream = "network" -> "eth.network"
    [] stream \in {"gasPrice", "gas"} -> "eth.gasPrice"
    [] stream = "blocks-simple" -> "eth.blocks"
    [] OTHER -> ""

\* getStreamSubject: logical stream name -> subject, with a default.
getStreamSubject(stream) ==
  CASE stream = "blocks" -> "eth.blocks.full"
    [] stream = "pending" -> "eth.pending"
    [] stream = "logs" -> "eth.logs"
    [] stream = "network" -> "eth.network"
    [] stream \in {"gasPrice", "gas"} -> "eth.gasPrice"
    [] stream = "blocks-simple" -> "eth.blocks"
    [] OTHER -> "eth.blocks.full"

\* js.Publish(subject, data): the broker appends the payload to the subject.
JsPublish(subj, data) ==
  log' = [log EXCEPT ![subj] = Append(@, data)]

Heights == 0..MaxHeight
\* Subscriber connections: two, so that subscribers can share a stream.
Conns == {"c1", "c2"}

(* --------------------------- Blocks poll job -------------------------- *)
\* Variant: the Blocks job publishing on the simple subject.
BlocksSubjectSimple == "eth.blocks"

\* js.Publish("eth.blocks.full", data) (main.go:351).
BlocksSubject == "eth.blocks.full"

\* Height of the most recently published block message; the initial cursor
\* value 0 while nothing was published.
LastPublished ==
  IF log[BlocksSubject] = <<>> THEN 0
  ELSE log[BlocksSubject][Len(log[BlocksSubject])]

\* History: the record of a finished tick. before is the cursor and the last
\* published height when the tick started, after the cursor it leaves.
EndTick(read, result, before, after) ==
  ticks' = Append(ticks, [read |-> read, result |-> result,
                          before |-> before.cursor,
                          pubBefore |-> before.published,
                          after |-> after])

AtTickStart == [cursor |-> lastBlockNumber, published |-> LastPublished]

\* Variant: a skip test that lets an equal height through.
NoNewBlockStrict(current, last) == current < last

\* Variant: a skip test that skips an equal height only.
NoNewBlockOnlyEqual(current, last) == current = last

\* The skip test of publishLatestBlock (main.go:306).
NoNewBlock(current, last) == current <= last

\* A tick whose head read ethClient.BlockByNumber(ctx, nil) fails.
BlocksHeadError ==
  /\ bpc = "idle"
  /\ Len(ticks) < MaxTicks
  /\ EndTick("err", "readErr", AtTickStart, lastBlockNumber)
  /\ UNCHANGED <<log, lastBlockNumber, bpc, currentBlockNumber, tickBefore,
                 relayVars, pollVars, procVars, clientVars>>

\* A tick whose head read returns height h: skip, or move the cursor and go
\* on to the second fetch.
BlocksHead(h) ==
  /\ bpc = "idle"
  /\ Len(ticks) < MaxTicks
  /\ IF NoNewBlock(h, lastBlockNumber)
       THEN /\ EndTick(h, "skipped", AtTickStart, lastBlockNumber)
            /\ UNCHANGED <<lastBlockNumber, bpc, currentBlockNumber,
                           tickBefore>>
       ELSE /\ lastBlockNumber' = h
            /\ currentBlockNumber' = h
            /\ tickBefore' = AtTickStart
            /\ bpc' = "refetch"
            /\ UNCHANGED ticks
  /\ UNCHANGED <<log, relayVars, pollVars, procVars, clientVars>>

\* The second fetch, ethClient.BlockByNumber(ctx, block.Number()).
BlocksRefetch(ok) ==
  /\ bpc = "refetch"
  /\ IF ok
       THEN /\ bpc' = "publish"
            /\ UNCHANGED ticks
       ELSE /\ bpc' = "idle"
            /\ EndTick(currentBlockNumber, "refetchErr", tickBefore,
                       lastBlockNumber)
  /\ UNCHANGED <<log, lastBlockNumber, currentBlockNumber, tickBefore,
                 relayVars, pollVars, procVars, clientVars>>

\* js.Publish("eth.blocks.full", data) and the return of the tick.
BlocksPublish(ok) ==
  /\ bpc = "publish"
  /\ bpc' = "idle"
  /\ IF ok
       THEN /\ JsPublish(BlocksSubject, currentBlockNumber)
            /\ EndTick(currentBlockNumber, "published", tickBefore,
                       lastBlockNumber)
       ELSE /\ UNCHANGED log
            /\ EndTick(currentBlockNumber, "publishErr", tickBefore,
                       lastBlockNumber)
  /\ UNCHANGED <<lastBlockNumber, currentBlockNumber, tickBefore, relayVars,
                 pollVars, procVars, clientVars>>

InitLog == [s \in Subjects |-> <<>>]

InitBlocksVars ==
  /\ lastBlockNumber = 0
  /\ bpc = "idle"
  /\ currentBlockNumber = 0
  /\ tickBefore = [cursor |-> 0, published |-> 0]
  /\ ticks = <<>>

InitRelayVars ==
  /\ hpc = [s \in Conns |-> "idle"]
  /\ subject = [s \in Conns |-> "eth.blocks.full"]
  /\ sub = [s \in Conns |-> "nil"]
  /\ startSeq = [s \in Conns |-> 1]
  /\ nextSeq = [s \in Conns |-> 1]
  /\ cb = [s \in Conns |-> FALSE]
  /\ cur = [s \in Conns |-> 0]
  /\ trace = [s \in Conns |-> <<>>]
  /\ reqDone = [s \in Conns |-> FALSE]
  /\ subAt = [s \in Conns |-> 0]
  /\ nextId = 1
  /\ ctxCancelled = FALSE
  /\ atSignal = {}

\* The five poll jobs monitorRPC starts (main.go:194-198).
Jobs == {"blocks", "pending", "logs", "network", "gasPrice"}

InitPollVars ==
  /\ jpc = [j \in Jobs |-> "select"]
  /\ inflight = [j \in Jobs |-> 0]
  /\ lastFail = "none"
  /\ cycle = [job |-> "none"]

\* main before NewSomniaStream; no name resolved yet.
InitProcVars ==
  /\ spc = "rpcDial"
  /\ bootLog = <<>>
  /\ jobsStarted = FALSE
  /\ serving = FALSE
  /\ accepted = 0
  /\ cycles = 0
  /\ resolved = {}
  /\ listing = <<>>

\* The tabs of the dashboard: the cases of handleMessage (app.js:127-143).
Tabs == {"blocks", "pending", "logs", "network", "gasPrice"}

\* The SomniaStreamClient constructor (app.js:2-12); the feeds are empty.
InitClientVars ==
  /\ currentStream = "blocks"
  /\ isConnected = FALSE
  /\ eventSources = [s \in Tabs |-> 0]
  /\ sources = <<>>
  /\ timers = 0
  /\ feeds = [s \in Tabs |-> <<>>]
  /\ messageCount = 0
  /\ arrived = [s \in Tabs |-> <<>>]
  /\ received = 0
  /\ bursts = 0
  /\ lastMessage = [source |-> 0, stream |-> "none", tab |-> "none"]

Init ==
  /\ log = InitLog
  /\ InitBlocksVars
  /\ InitRelayVars
  /\ InitPollVars
  /\ InitProcVars
  /\ InitClientVars

NextBlocks ==
  \/ BlocksHeadError
  \/ \E h \in Heights : BlocksHead(h)
  \/ \E ok \in BOOLEAN : BlocksRefetch(ok)
  \/ \E ok \in BOOLEAN : BlocksPublish(ok)

SpecBlocks == Init /\ [][NextBlocks]_vars

(* ---------------------------- fan-out bridge -------------------------- *)
\* Logical stream names subscribers ask for: two known names and one the
\* resolver does not know.
RelayStreams == {"blocks", "pending", "no-such-stream"}

\* Subjects the poll jobs publish on in the relay's state machine.
RelaySubjects == {"eth.blocks.full", "eth.pending"}

\* Variant: JetStream's default policy, DeliverAll, replays the subject.
DeliverAllStart(subj) == 1

\* nats.DeliverNew(): the consumer starts after the last message the
\* subject holds when the subscription is created (main.go:530).
DeliverNewStart(subj) == Len(log[subj]) + 1

\* Variant: a callback that acknowledges before it writes.
CallbackStepsAckFirst == <<"ack", "write", "flush">>

\* Variant: a callback that writes its event twice.
CallbackStepsWriteTwice == <<"write", "write", "flush", "ack">>

\* The subscription callback, in program order (main.go:527-529):
\* fmt.Fprintf(c.Writer, ...), c.Writer.Flush(), msg.Ack().
CallbackSteps == <<"write", "flush", "ack">>

\* Variant: a handler without the deferred Unsubscribe.
UnsubscribeNever(st) == st

\* defer sub.Unsubscribe() (main.go:531); on a nil subscription (Subscribe
\* failed, its error is dropped) nats.go returns ErrBadSubscription.
Unsubscribe(st) == IF st = "active" THEN "closed" ELSE st

\* Variant: a handler that does not wait for the request context.
ReturnAtOnce(s) == TRUE

\* <-c.Request.Context().Done() (main.go:534): the handler goes on when the
\* request's context is cancelled.
RequestContextDone(s) == reqDone[s]

\* Variant: one dispatcher shared by all subscriptions.
DispatcherSharedIdle(s) == \A o \in Conns : ~cb[o]

\* nats.go runs the callbacks of one subscription one after the other, on
\* that subscription's own goroutine.
DispatcherIdle(s) == ~cb[s]

\* A poll job's js.Publish on its subject (main.go:351, 385, 430, 460, 478).
\* When a job publishes is left open: any time, also after the signal (a job
\* may be inside a cycle when the context is cancelled).
PollPublish(subj) ==
  /\ nextId <= MaxPublished
  /\ JsPublish(subj, nextId)
  /\ nextId' = nextId + 1
  /\ UNCHANGED <<blocksVars, pollVars, procVars, clientVars, hpc, subject, sub,
                 startSeq, nextSeq, cb, cur, trace, reqDone, subAt,
                 ctxCancelled, atSignal>>

\* handleSSEStream up to its wait: resolve the subject, subscribe with
\* DeliverNew (ok: whether js.Subscribe succeeded).
SSEConnect(s, stream, ok) ==
  /\ hpc[s] = "idle"
  /\ hpc' = [hpc EXCEPT ![s] = "waiting"]
  /\ subject' = [subject EXCEPT ![s] = getStreamSubject(stream)]
  /\ IF ok
       THEN /\ sub' = [sub EXCEPT ![s] = "active"]
            /\ startSeq' = [startSeq EXCEPT
                              ![s] = DeliverNewStart(getStreamSubject(stream))]
            /\ nextSeq' = [nextSeq EXCEPT
                              ![s] = DeliverNewStart(getStreamSubject(stream))]
            /\ subAt' = [subAt EXCEPT ![s] = nextId]
       ELSE UNCHANGED <<sub, startSeq, nextSeq, subAt>>
  /\ UNCHANGED <<log, blocksVars, pollVars, procVars, clientVars, cb, cur,
                 trace, reqDone, nextId, ctxCancelled, atSignal>>

\* The broker pushes the consumer's next message and nats.go calls the
\* subscription's callback with it.
BrokerDeliver(s) ==
  /\ sub[s] = "active"
  /\ DispatcherIdle(s)
  /\ nextSeq[s] <= Len(log[subject[s]])
  /\ cur' = [cur EXCEPT ![s] = log[subject[s]][nextSeq[s]]]
  /\ nextSeq' = [nextSeq EXCEPT ![s] = @ + 1]
  /\ cb' = [cb EXCEPT ![s] = TRUE]
  /\ UNCHANGED <<log, blocksVars, pollVars, procVars, clientVars, hpc, subject,
                 sub, startSeq, trace, reqDone, subAt, nextId, ctxCancelled,
                 atSignal>>

\* The callback runs to its end: its calls in program order. A write or
\* flush on a connection that is gone fails, and the callback drops the
\* error; msg.Ack() is sent in any case.
Callback(s) ==
  /\ cb[s]
  /\ trace' = [trace EXCEPT ![s] =
                 @ \o [i \in 1..Len(CallbackSteps) |->
                         [op |-> CallbackSteps[i], msg |-> cur[s],
                          ok |-> (CallbackSteps[i] = "ack" \/ ~reqDone[s])]]]
  /\ cb' = [cb EXCEPT ![s] = FALSE]
  /\ UNCHANGED <<log, blocksVars, pollVars, procVars, clientVars, hpc, subject,
                 sub, startSeq, nextSeq, cur, reqDone, subAt, nextId,
                 ctxCancelled, atSignal>>

\* The subscriber goes away: net/http cancels the request's context.
ClientDisconnect(s) ==
  /\ hpc[s] = "waiting"
  /\ ~reqDone[s]
  /\ reqDone' = [reqDone EXCEPT ![s] = TRUE]
  /\ UNCHANGED <<log, blocksVars, pollVars, procVars, clientVars, hpc, subject,
                 sub, startSeq, nextSeq, cb, cur, trace, subAt, nextId,
                 ctxCancelled, atSignal>>

\* handleSSEStream returns: the wait ends and the deferred Unsubscribe runs.
\* A callback already running goes on to its end.
SSEReturn(s) ==
  /\ hpc[s] = "waiting"
  /\ RequestContextDone(s)
  /\ hpc' = [hpc EXCEPT ![s] = "returned"]
  /\ sub' = [sub EXCEPT ![s] = Unsubscribe(@)]
  /\ UNCHANGED <<log, blocksVars, pollVars, procVars, clientVars, subject,
                 startSeq, nextSeq, cb, cur, trace, reqDone, subAt, nextId,
                 ctxCancelled, atSignal>>

\* main's signal goroutine: SIGINT/SIGTERM arrives and cancel() is called.
\* The context it cancels is the one handed to Start and monitorRPC; the
\* HTTP server (router.Run) and the request contexts do not derive from it.
Shutdown ==
  /\ ~ctxCancelled
  /\ ctxCancelled' = TRUE
  /\ atSignal' = {s \in Conns : hpc[s] = "waiting"}
  /\ UNCHANGED <<log, blocksVars, pollVars, procVars, clientVars, hpc, subject,
                 sub, startSeq, nextSeq, cb, cur, trace, reqDone, subAt,
                 nextId>>

NextRelay ==
  \/ \E subj \in RelaySubjects : PollPublish(subj)
  \/ \E s \in Conns, stream \in RelayStreams, ok \in BOOLEAN :
       SSEConnect(s, stream, ok)
  \/ \E s \in Conns : BrokerDeliver(s)
  \/ \E s \in Conns : Callback(s)
  \/ \E s \in Conns : ClientDisconnect(s)
  \/ \E s \in Conns : SSEReturn(s)

SpecRelay == Init /\ [][NextRelay]_vars

\* The Go scheduler runs every runnable goroutine and the broker pushes
\* what a consumer is owed: delivery, the callback's calls and the
\* handler's return are weakly fair. When subscribers connect or leave,
\* when jobs publish and when the signal arrives is up to the environment.
RelayFairness(s) ==
  /\ WF_vars(BrokerDeliver(s))
  /\ WF_vars(Callback(s))
  /\ WF_vars(SSEReturn(s))

FairRelay == SpecRelay /\ \A s \in Conns : RelayFairness(s)

\* The relay together with the shutdown signal. No action of the relay reads
\* what Shutdown writes, so SpecRelay leaves the signal out.
NextSignal ==
  \/ NextRelay
  \/ Shutdown

SpecSignal == Init /\ [][NextSignal]_vars

FairSignal == SpecSignal /\ \A s \in Conns : RelayFairness(s)

(* --------------------------- the poll loops --------------------------- *)
\* How the upstream part of a cycle can end, per job: "ok" goes on to
\* js.Publish, "skip" returns nil without publishing (no new block, empty
\* pool, no logs), "err" returns the error. publishNetworkStats drops the
\* errors of its reads and always publishes; publishGasPrice never skips.
ReadOutcomes(j) ==
  CASE j = "network" -> {"ok"}
    [] j = "gasPrice" -> {"ok", "err"}
    [] OTHER -> {"ok", "skip", "err"}

\* Variant: a lock shared by the five loops.
LoopReadyAllIdle(j) == \A k \in Jobs : jpc[k] = "select"

\* A loop takes a tick when it is at its own select (main.go:212-216).
LoopReady(j) == jpc[j] = "select"

\* Variant: the loop starts the cycle with a go statement and goes back to
\* its select.
LoopOnTickSpawn == "select"

\* The loop calls its publish function and is inside it until it returns
\* (main.go:217, 234, 251, 268, 287).
LoopOnTick == "read"

\* Variant: a loop that returns on a cycle's error.
AfterCycleFatal(failed) == IF failed THEN "exited" ELSE "select"

\* Variant: a failed cycle goes to its publish again at once.
AfterCycleRepublish(failed) == IF failed THEN "publish" ELSE "select"

\* The loop logs a cycle's error and goes round (main.go:217-219).
AfterCycle(failed) == "select"

pollFrame == <<log, bpc, currentBlockNumber, tickBefore, ticks, hpc, subject,
               sub, startSeq, nextSeq, cb, cur, trace, reqDone, subAt, nextId,
               atSignal, cycle, procVars, clientVars>>

\* case <-ticker.C: a tick is there, the loop takes it and calls its publish
\* function. A tick that comes while the loop is not at its select waits in
\* the ticker's channel (buffer of one) or is dropped. With the context
\* cancelled too, select may still choose this case.
JobStartCycle(j) ==
  /\ LoopReady(j)
  /\ jpc' = [jpc EXCEPT ![j] = LoopOnTick]
  /\ inflight' = [inflight EXCEPT ![j] = @ + 1]
  /\ UNCHANGED <<pollFrame, lastBlockNumber, ctxCancelled, lastFail>>

EndCycle(j, failed) ==
  /\ jpc' = [jpc EXCEPT ![j] = AfterCycle(failed)]
  /\ inflight' = [inflight EXCEPT ![j] = @ - 1]
  /\ lastFail' = IF failed THEN j ELSE lastFail

\* The upstream reads of the cycle return. They are made with
\* context.Background() on a client without a timeout: nothing bounds the
\* time they take. The Blocks job moves its cursor when the head is new,
\* before its second read; its first read can fail, which leaves the cursor.
JobReadReturn(j, outcome) ==
  /\ jpc[j] = "read"
  /\ outcome \in ReadOutcomes(j)
  /\ IF outcome = "ok"
       THEN /\ jpc' = [jpc EXCEPT ![j] = "publish"]
            /\ UNCHANGED <<inflight, lastFail>>
       ELSE EndCycle(j, outcome = "err")
  /\ IF j = "blocks" /\ outcome # "skip"
       THEN \/ \E h \in Heights :
                 /\ ~NoNewBlock(h, lastBlockNumber)
                 /\ lastBlockNumber' = h
            \/ /\ outcome = "err"
               /\ UNCHANGED lastBlockNumber
       ELSE UNCHANGED lastBlockNumber
  /\ UNCHANGED <<pollFrame, ctxCancelled>>

\* js.Publish returns: the ack, an error, or nats.go's timeout for the ack
\* (5 s by default), which bounds the call. What is published is left to
\* the cycles below.
JobPublishReturn(j, ok) ==
  /\ jpc[j] = "publish"
  /\ EndCycle(j, ~ok)
  /\ UNCHANGED <<pollFrame, lastBlockNumber, ctxCancelled>>

\* case <-ctx.Done(): the loop returns.
JobExit(j) ==
  /\ jpc[j] = "select"
  /\ ctxCancelled
  /\ jpc' = [jpc EXCEPT ![j] = "exited"]
  /\ UNCHANGED <<pollFrame, lastBlockNumber, ctxCancelled, inflight,
                 lastFail>>

NextJobs ==
  \/ \E j \in Jobs : JobStartCycle(j)
  \/ \E j \in Jobs, outcome \in {"ok", "skip", "err"} :
       JobReadReturn(j, outcome)
  \/ \E j \in Jobs, ok \in BOOLEAN : JobPublishReturn(j, ok)
  \/ \E j \in Jobs : JobExit(j)
  \/ Shutdown

SpecJobs == Init /\ [][NextJobs]_vars

\* select chooses at random among the cases that are ready, so a loop at
\* its select with the context cancelled returns sooner or later (strong
\* fairness: ticks may keep taking it away from the select); js.Publish is
\* bounded by its timeout. Nothing makes an upstream read return.
JobFairness(j) ==
  /\ SF_vars(JobExit(j))
  /\ WF_vars(JobPublishReturn(j, TRUE) \/ JobPublishReturn(j, FALSE))

FairJobs == SpecJobs /\ \A j \in Jobs : JobFairness(j)

(* ------------------------- one cycle of a job ------------------------- *)
\* Helper function for min (main.go:483-488).
min(a, b) == IF a < b THEN a ELSE b

\* s[:n] of a Go slice.
Slice(s, n) == [i \in 1..n |-> s[i]]

\* How far above the limit of a message the upstream's answers go.
MaxOver == 2

\* Sizes of the upstream's answers: none, a few, and around the limit.
Sizes(limit) == {0, 1, 2} \cup ((limit - 1)..(limit + MaxOver))

\* Entries of the answer, told apart by their place in it.
Entries(n) == [i \in 1..n |-> i]

pendingLimit == 50

\* Variant: the count of the entries sent.
pendingCountSent(pendingTxs) == min(Len(pendingTxs), pendingLimit)

\* "count": len(pendingTxs)
pendingCount(pendingTxs) == Len(pendingTxs)

pendingPayload(pendingTxs) ==
  [count |-> pendingCount(pendingTxs),
   transactions |-> Slice(pendingTxs, min(Len(pendingTxs), pendingLimit))]

\* Variant: a publish that is tried again at once when it fails.
SubmitWithRetry(subj, payload, ok) ==
  IF ok THEN <<[subject |-> subj, payload |-> payload, ok |-> TRUE]>>
  ELSE <<[subject |-> subj, payload |-> payload, ok |-> FALSE],
         [subject |-> subj, payload |-> payload, ok |-> FALSE]>>

\* One call of js.Publish, as the cycle's record keeps it.
Submit(subj, payload, ok) ==
  <<[subject |-> subj, payload |-> payload, ok |-> ok]>>

\* One call to the upstream or to the broker, and whether it succeeded.
Call(op, ok) == [op |-> op, ok |-> ok]

\* The calls of js.Publish behind the messages a cycle submitted.
PublishCalls(out) == [i \in 1..Len(out) |-> Call("js.Publish", out[i].ok)]

cycleFrame ==
  <<log, blocksVars, relayVars, jpc, inflight, lastFail, procVars, clientVars>>

\* publishPendingTransactions, whole: readOk is whether
\* eth_pendingTransactions answered, pendingTxs its answer, pubOk whether
\* js.Publish succeeded.
publishPendingTransactions(readOk, pendingTxs, pubOk) ==
  LET read == <<Call("eth_pendingTransactions", readOk)>>
      sent == Submit("eth.pending", pendingPayload(pendingTxs), pubOk)
  IN
  /\ cycle' =
       IF ~readOk
         THEN [job |-> "pending", readOk |-> FALSE, calls |-> read,
               out |-> <<>>, err |-> TRUE]
       ELSE IF Len(pendingTxs) > 0
         THEN [job |-> "pending", readOk |-> TRUE, pool |-> pendingTxs,
               calls |-> read \o PublishCalls(sent),
               out |-> sent,
               err |-> ~pubOk]
       ELSE [job |-> "pending", readOk |-> TRUE, pool |-> pendingTxs,
             calls |-> read,
               out |-> <<>>, err |-> FALSE]
  /\ UNCHANGED cycleFrame

(* Numbers wider than TLC's integers: a natural number is the sequence of
   its base-10^9 digits ("limbs"), least significant first, without leading
   zero limbs; zero is <<0>>. *)
Giga == 1000000000

Big(n) == <<n>>

RECURSIVE BigNorm(_)
BigNorm(x) ==
  IF Len(x) > 1 /\ x[Len(x)] = 0 THEN BigNorm(SubSeq(x, 1, Len(x) - 1)) ELSE x

BigLess(a, b) ==
  IF Len(a) # Len(b) THEN Len(a) < Len(b)
  ELSE \E i \in 1..Len(a) :
         /\ a[i] < b[i]
         /\ \A k \in (i + 1)..Len(a) : a[k] = b[k]

Limb(x, i) == IF i <= Len(x) THEN x[i] ELSE 0

\* Limbs i.. of a - b - borrow, for a >= b.
RECURSIVE SubLimbs(_, _, _, _)
SubLimbs(a, b, i, borrow) ==
  IF i > Len(a) THEN <<>>
  ELSE LET d == a[i] - Limb(b, i) - borrow
       IN  IF d < 0 THEN <<d + Giga>> \o SubLimbs(a, b, i + 1, 1)
           ELSE <<d>> \o SubLimbs(a, b, i + 1, 0)

BigSub(a, b) == BigNorm(SubLimbs(a, b, 1, 0))

\* Quotient limbs i..1 of (carry * 10^9^i + x) by 2, most significant first.
RECURSIVE HalfLimbs(_, _, _)
HalfLimbs(x, i, carry) ==
  IF i = 0 THEN <<>>
  ELSE LET c == carry * Giga + x[i]
       IN  HalfLimbs(x, i - 1, c % 2) \o <<c \div 2>>

BigHalf(x) == BigNorm(HalfLimbs(x, Len(x), 0))

\* Binary digits of x, least significant first.
RECURSIVE Bits(_)
Bits(x) == IF x = <<0>> THEN <<>> ELSE <<x[1] % 2>> \o Bits(BigHalf(x))

Bit(b, i) == IF i <= Len(b) THEN b[i] ELSE 0

\* %x: the hexadecimal digits of x, most significant first.
HexString(x) ==
  IF x = <<0>> THEN <<0>>
  ELSE LET b == Bits(x)
           n == (Len(b) + 3) \div 4
       IN  [i \in 1..n |->
              LET k == 4 * (n - i)
              IN  Bit(b, k + 1) + 2 * Bit(b, k + 2) + 4 * Bit(b, k + 3)
                    + 8 * Bit(b, k + 4)]

\* 2^64
TwoTo64 == <<709551616, 446744073, 18>>

\* a - b on uint64: the difference modulo 2^64.
Uint64Sub(a, b) ==
  IF BigLess(a, b) THEN BigSub(TwoTo64, BigSub(b, a)) ELSE BigSub(a, b)

\* x < 0 for a uint64 x.
Uint64Negative(x) == FALSE

\* big.Int.Uint64: the low 64 bits of x.
RECURSIVE BigIntUint64(_)
BigIntUint64(x) ==
  IF BigLess(x, TwoTo64) THEN x ELSE BigIntUint64(BigSub(x, TwoTo64))

\* Heads the Logs job reads: below and above its look-back.
MaxHead == 7

logsLookBack == 5

logsLimit == 100

\* fromBlock := latestBlock.Number().Uint64() - 5, then the test for < 0.
logsFromBlock(number) ==
  LET fromBlock == Uint64Sub(BigIntUint64(number), Big(logsLookBack))
  IN  IF Uint64Negative(fromBlock) THEN Big(0) ELSE fromBlock

logsQuery(number) ==
  [fromBlock |-> HexString(logsFromBlock(number)), toBlock |-> "latest"]

\* Variant: every matched log is sent.
logsSentAll(logs) == logs

\* "logs": logs[:min(len(logs), 100)]
logsSent(logs) == Slice(logs, min(Len(logs), logsLimit))

logsPayload(number, logs) ==
  [count |-> Len(logs),
   logs |-> logsSent(logs),
   fromBlock |-> logsFromBlock(number),
   toBlock |-> BigIntUint64(number)]

\* publishRecentLogs, whole: headOk and number are the head read, logsOk
\* and logs the answer of eth_getLogs, pubOk the result of js.Publish.
publishRecentLogs(headOk, number, logsOk, logs, pubOk) ==
  LET head == Call("eth_getBlockByNumber", headOk)
      query == Call("eth_getLogs", logsOk)
      sent == Submit("eth.logs", logsPayload(number, logs), pubOk)
  IN
  /\ cycle' =
       IF ~headOk
         THEN [job |-> "logs", headOk |-> FALSE, calls |-> <<head>>,
               out |-> <<>>, err |-> TRUE]
       ELSE IF ~logsOk
         THEN [job |-> "logs", headOk |-> TRUE, head |-> number,
               query |-> logsQuery(number), readOk |-> FALSE,
               calls |-> <<head, query>>,
               out |-> <<>>, err |-> TRUE]
       ELSE IF Len(logs) > 0
         THEN [job |-> "logs", headOk |-> TRUE, head |-> number,
               query |-> logsQuery(number), readOk |-> TRUE,
               matched |-> logs,
               calls |-> <<head, query>> \o PublishCalls(sent),
               out |-> sent,
               err |-> ~pubOk]
       ELSE [job |-> "logs", headOk |-> TRUE, head |-> number,
             query |-> logsQuery(number), readOk |-> TRUE, matched |-> logs,
             calls |-> <<head, query>>,
               out |-> <<>>, err |-> FALSE]
  /\ UNCHANGED cycleFrame

NextCycles ==
  \/ \E readOk, pubOk \in BOOLEAN, n \in Sizes(pendingLimit) :
       publishPendingTransactions(readOk, Entries(n), pubOk)
  \/ \E headOk, logsOk, pubOk \in BOOLEAN, h \in 0..MaxHead,
        n \in Sizes(logsLimit) :
       publishRecentLogs(headOk, Big(h), logsOk, Entries(n), pubOk)

SpecCycles == Init /\ [][NextCycles]_vars

(* ------------------- Logs cycle against a moving chain ---------------- *)
\* Blocks the chain may gain between the head read and the log query.
MaxAdvance == 1

\* The node's answer to eth_getLogs with toBlock "latest": the entries of
\* the blocks from fromBlock up to the node's head at the time of the
\* query, in block order; withLogs are the blocks that hold a matching log.
ethGetLogs(fromBlock, latest, withLogs) ==
  LET chain == [i \in 1..(latest + 1) |-> i - 1]
      inRange == SelectSeq(chain, LAMBDA b :
                   b \in withLogs /\ ~BigLess(Big(b), fromBlock))
  IN  [i \in 1..Len(inRange) |-> [blockNumber |-> Big(inRange[i])]]

\* One Logs cycle: the head read returns h, the chain gains adv blocks, and
\* the query is answered from the chain as it then is. The blocks holding
\* a matching log are a run lo..hi of the chain. The heads are those with
\* a whole look-back behind them.
LogsCycleOnChain(h, adv, withLogs, pubOk) ==
  publishRecentLogs(TRUE, Big(h), TRUE,
                    ethGetLogs(logsFromBlock(Big(h)), h + adv, withLogs),
                    pubOk)

NextLogsRange ==
  \E h \in logsLookBack..MaxHead, adv \in 0..MaxAdvance,
     pubOk \in BOOLEAN, lo \in 0..(MaxHead + MaxAdvance) :
    \E hi \in lo..(MaxHead + MaxAdvance) :
      LogsCycleOnChain(h, adv, lo..hi, pubOk)

SpecLogsRange == Init /\ [][NextLogsRange]_vars

(* ------------------- NetworkStats and GasPrice cycles ----------------- *)
\* The five metadata reads of publishNetworkStats, by the field they fill.
netFields == {"chainId", "blockNumber", "gasPrice", "peerCount", "syncing"}

\* What a read answers when it succeeds.
netValues(f) == IF f = "syncing" THEN {"false", "progress"} ELSE {"0x1", "0x2"}

netAnswers(f) ==
  {[ok |-> FALSE]} \cup {[ok |-> TRUE, v |-> x] : x \in netValues(f)}

\* The variable a read fills, as declared: "" for a string, nil for the
\* interface{} of syncing.
netZero(f) == IF f = "syncing" THEN "null" ELSE ""

\* rpcClient.Call(&result, ...): a failed call leaves result as it was.
rpcCall(result, answer) == IF answer.ok THEN answer.v ELSE result

\* Variant: the cycle returns the error of a read.
netReadErrorReturnedAny(reads) == \E f \in netFields : ~reads[f].ok

\* The errors of the five Calls are not looked at (main.go:442-448).
netReadErrorReturned(reads) == FALSE

\* The five Calls, in program order.
netCalls(reads) ==
  <<Call("eth_chainId", reads["chainId"].ok),
    Call("eth_blockNumber", reads["blockNumber"].ok),
    Call("eth_gasPrice", reads["gasPrice"].ok),
    Call("net_peerCount", reads["peerCount"].ok),
    Call("eth_syncing", reads["syncing"].ok)>>

netStats(reads) == [f \in netFields |-> rpcCall(netZero(f), reads[f])]

\* publishNetworkStats, whole.
publishNetworkStats(reads, pubOk) ==
  LET sent == Submit("eth.network", netStats(reads), pubOk)
  IN
  /\ cycle' =
       IF netReadErrorReturned(reads)
         THEN [job |-> "network", reads |-> reads, calls |-> netCalls(reads),
               out |-> <<>>, err |-> TRUE]
       ELSE [job |-> "network", reads |-> reads,
             calls |-> netCalls(reads) \o PublishCalls(sent),
               out |-> sent,
             err |-> ~pubOk]
  /\ UNCHANGED cycleFrame

\* Decimal digits of n, most significant first.
RECURSIVE Digits(_)
Digits(n) == IF n < 10 THEN <<n>> ELSE Digits(n \div 10) \o <<n % 10>>

\* The nine decimal digits of a limb.
Digits9(n) == [i \in 1..9 |-> (n \div 10^(9 - i)) % 10]

RECURSIVE LimbDigits(_, _)
LimbDigits(x, i) ==
  IF i = 0 THEN <<>> ELSE Digits9(x[i]) \o LimbDigits(x, i - 1)

\* big.Int.String: the decimal digits of x.
BigString(x) == Digits(x[Len(x)]) \o LimbDigits(x, Len(x) - 1)

\* float64(u) / 1e9, kept exact: the whole part and the billionths. The
\* rounding of float64 (53 bits) is left out.
OverGiga(u) ==
  [whole |-> IF Len(u) = 1 THEN <<0>> ELSE Tail(u), frac |-> u[1]]

\* Raw gas prices the upstream suggests, in wei: 0, 1, 1.5 gwei, 20 gwei,
\* 2^64 - 1, 2^64, 2^64 + 20 gwei.
GasPrices ==
  {<<0>>, <<1>>, <<500000000, 1>>, <<0, 20>>,
   <<709551615, 446744073, 18>>, <<709551616, 446744073, 18>>,
   <<709551616, 446744093, 18>>}

gasPriceData(gasPrice) ==
  [gasPrice |-> BigString(gasPrice),
   gwei |-> OverGiga(BigIntUint64(gasPrice))]

\* publishGasPrice, whole.
publishGasPrice(readOk, gasPrice, pubOk) ==
  LET read == <<Call("eth_gasPrice", readOk)>>
      sent == Submit("eth.gasPrice", gasPriceData(gasPrice), pubOk)
  IN
  /\ cycle' =
       IF ~readOk
         THEN [job |-> "gasPrice", readOk |-> FALSE, calls |-> read,
               out |-> <<>>,
               err |-> TRUE]
       ELSE [job |-> "gasPrice", readOk |-> TRUE, raw |-> gasPrice,
             calls |-> read \o PublishCalls(sent),
               out |-> sent,
             err |-> ~pubOk]
  /\ UNCHANGED cycleFrame

NextStats ==
  \/ \E c \in netAnswers("chainId"), b \in netAnswers("blockNumber"),
        g \in netAnswers("gasPrice"), p \in netAnswers("peerCount"),
        s \in netAnswers("syncing"), pubOk \in BOOLEAN :
       publishNetworkStats(
         [f \in netFields |->
            CASE f = "chainId" -> c
              [] f = "blockNumber" -> b
              [] f = "gasPrice" -> g
              [] f = "peerCount" -> p
              [] f = "syncing" -> s], pubOk)
  \/ \E readOk, pubOk \in BOOLEAN, gasPrice \in GasPrices :
       publishGasPrice(readOk, gasPrice, pubOk)

SpecStats == Init /\ [][NextStats]_vars

(* -------------------- one tick of any of the jobs --------------------- *)
\* "number": block.Number().String(); the other fields of blockData are
\* left out.
blockData(h) == [number |-> BigString(Big(h))]

\* publishLatestBlock, whole: headOk and h are the head read, refetchOk the
\* second fetch, pubOk the result of js.Publish.
publishLatestBlock(headOk, h, refetchOk, pubOk) ==
  LET head == Call("eth_getBlockByNumber", headOk)
      refetch == Call("eth_getBlockByNumber", refetchOk)
      sent == Submit(BlocksSubject, blockData(h), pubOk)
      before == lastBlockNumber
  IN
  /\ cycle' =
       IF ~headOk
         THEN [job |-> "blocks", headOk |-> FALSE, before |-> before,
               calls |-> <<head>>, out |-> <<>>, err |-> TRUE]
       ELSE IF NoNewBlock(h, lastBlockNumber)
         THEN [job |-> "blocks", headOk |-> TRUE, head |-> h,
               before |-> before, calls |-> <<head>>, out |-> <<>>,
               err |-> FALSE]
       ELSE IF ~refetchOk
         THEN [job |-> "blocks", headOk |-> TRUE, head |-> h,
               before |-> before, calls |-> <<head, refetch>>, out |-> <<>>,
               err |-> TRUE]
       ELSE [job |-> "blocks", headOk |-> TRUE, head |-> h,
             before |-> before,
             calls |-> <<head, refetch>> \o PublishCalls(sent), out |-> sent,
             err |-> ~pubOk]
  /\ lastBlockNumber' =
       IF headOk /\ ~NoNewBlock(h, lastBlockNumber) THEN h
       ELSE lastBlockNumber
  /\ UNCHANGED <<log, bpc, currentBlockNumber, tickBefore, ticks, relayVars,
                 jpc, inflight, lastFail, procVars, clientVars>>

\* One tick of one job, whichever: the five publish functions with few
\* inputs each.
NextTicks ==
  \/ \E headOk, refetchOk, pubOk \in BOOLEAN, h \in Heights :
       publishLatestBlock(headOk, h, refetchOk, pubOk)
  \/ \E readOk, pubOk \in BOOLEAN, n \in {0, 1} :
       publishPendingTransactions(readOk, Entries(n), pubOk)
  \/ \E headOk, logsOk, pubOk \in BOOLEAN, n \in {0, 1} :
       publishRecentLogs(headOk, Big(MaxHead), logsOk, Entries(n), pubOk)
  \/ \E fails \in SUBSET netFields, pubOk \in BOOLEAN :
       publishNetworkStats(
         [f \in netFields |->
            IF f \in fails THEN [ok |-> FALSE]
            ELSE [ok |-> TRUE, v |-> IF f = "syncing" THEN "false" ELSE "0x1"]],
         pubOk)
  \/ \E readOk, pubOk \in BOOLEAN, gasPrice \in GasPrices :
       publishGasPrice(readOk, gasPrice, pubOk)

SpecTicks == Init /\ [][NextTicks]_vars

(* ------------------------------- startup ------------------------------ *)
\* How many poll cycles and subscriber requests the startup model follows.
MaxStarted == 2

\* The connections NewSomniaStream makes, in program order (main.go:45-66).
connectSteps == <<"rpcDial", "ethDial", "natsConnect", "jetStream">>

\* The streams setupJetStreams goes through (main.go:126-143).
jetStreams == <<"ETH_BLOCKS", "ETH_TRANSACTIONS", "ETH_LOGS", "ETH_NETWORK">>

StepAfter(step) ==
  CASE step = "rpcDial" -> "ethDial"
    [] step = "ethDial" -> "natsConnect"
    [] step = "natsConnect" -> "jetStream"
    [] step = "jetStream" -> "setup"

\* Streams handled so far by the loop of setupJetStreams.
StreamsDone ==
  Len(SelectSeq(bootLog, LAMBDA e : e.step \in {"streamInfo", "addStream"}))

\* Variant: a loop that only logs the error of AddStream.
setupReturnsErrorNever(exists, created) == FALSE

\* setupJetStreams returns the error of AddStream (main.go:157-162).
setupReturnsError(exists, created) == ~exists /\ ~created

bootFrame ==
  <<log, blocksVars, relayVars, pollVars, resolved, listing, clientVars>>

\* One of the connections of NewSomniaStream; an error comes back to main,
\* which ends the process with log.Fatalf.
Connect(step, ok) ==
  /\ spc = step
  /\ step \in {connectSteps[i] : i \in DOMAIN connectSteps}
  /\ bootLog' = Append(bootLog, [step |-> step, ok |-> ok])
  /\ spc' = IF ok THEN StepAfter(step) ELSE "fatal"
  /\ UNCHANGED <<bootFrame, jobsStarted, serving, accepted, cycles>>

\* One round of the loop of setupJetStreams: StreamInfo finds the stream
\* (exists), or AddStream creates it (created) or fails.
SetupStream(exists, created) ==
  /\ spc = "setup"
  /\ bootLog' =
       Append(bootLog,
              IF exists
                THEN [step |-> "streamInfo", ok |-> TRUE,
                      stream |-> jetStreams[StreamsDone + 1]]
                ELSE [step |-> "addStream", ok |-> created,
                      stream |-> jetStreams[StreamsDone + 1]])
  /\ spc' = IF setupReturnsError(exists, created) THEN "fatal"
            ELSE IF StreamsDone + 1 = Len(jetStreams) THEN "start"
            ELSE "setup"
  /\ UNCHANGED <<bootFrame, jobsStarted, serving, accepted, cycles>>

\* Start: the routes are set and go dt.monitorRPC(ctx) starts the jobs.
StartMonitor ==
  /\ spc = "start"
  /\ jobsStarted' = TRUE
  /\ spc' = "run"
  /\ UNCHANGED <<bootFrame, bootLog, serving, accepted, cycles>>

\* router.Run: the server listens, or Run returns an error and main ends
\* the process.
RouterRun(ok) ==
  /\ spc = "run"
  /\ bootLog' = Append(bootLog, [step |-> "listen", ok |-> ok])
  /\ serving' = ok
  /\ spc' = IF ok THEN "serving" ELSE "fatal"
  /\ UNCHANGED <<bootFrame, jobsStarted, accepted, cycles>>

\* A poll job runs a cycle: the jobs run from go monitorRPC on, as long as
\* the process lives.
PollCycle ==
  /\ jobsStarted
  /\ spc # "fatal"
  /\ cycles < MaxStarted
  /\ cycles' = cycles + 1
  /\ UNCHANGED <<bootFrame, spc, bootLog, jobsStarted, serving, accepted>>

\* The server accepts a subscriber's request.
AcceptSubscriber ==
  /\ serving
  /\ accepted < MaxStarted
  /\ accepted' = accepted + 1
  /\ UNCHANGED <<bootFrame, spc, bootLog, jobsStarted, serving, cycles>>

NextBoot ==
  \/ \E i \in DOMAIN connectSteps, ok \in BOOLEAN : Connect(connectSteps[i], ok)
  \/ \E exists, created \in BOOLEAN : SetupStream(exists, created)
  \/ StartMonitor
  \/ \E ok \in BOOLEAN : RouterRun(ok)
  \/ PollCycle
  \/ AcceptSubscriber

SpecBoot == Init /\ [][NextBoot]_vars

(* ----------------------- resolver and directory ---------------------- *)
\* Names a request can carry in /sse/:stream: the listed ones, the alias,
\* the empty name, a name in another case and an unknown one.
StreamNames ==
  {"blocks", "pending", "logs", "network", "gasPrice", "gas", "blocks-simple",
   "", "BLOCKS", "no-such-stream"}

\* The case labels of the switch in getStreamSubject (main.go:563-574).
resolverCases ==
  {"blocks", "pending", "logs", "network", "gasPrice", "gas", "blocks-simple"}

\* The "streams" map of listStreams: each description names a subject, then
\* says what the stream carries.
listStreams ==
  [name \in {"blocks", "pending", "logs", "network", "gasPrice",
             "blocks-simple"} |->
     CASE name = "blocks" ->
            [subject |-> "eth.blocks.full",
             text |-> "Full block data with transactions (JetStream)"]
       [] name = "pending" ->
            [subject |-> "eth.pending",
             text |-> "Pending transactions (JetStream)"]
       [] name = "logs" ->
            [subject |-> "eth.logs", text |-> "Recent event logs (JetStream)"]
       [] name = "network" ->
            [subject |-> "eth.network",
             text |-> "Network statistics (JetStream)"]
       [] name = "gasPrice" ->
            [subject |-> "eth.gasPrice",
             text |-> "Current gas price (JetStream)"]
       [] name = "blocks-simple" ->
            [subject |-> "eth.blocks",
             text |-> "Simple block data (JetStream)"]]

resolveFrame ==
  <<log, blocksVars, relayVars, pollVars, spc, bootLog, jobsStarted,
    serving, accepted, cycles, clientVars>>

\* handleSSEStream's first two lines: the name of the request is resolved.
ResolveStream(name) ==
  /\ resolved' = resolved \cup {<<name, getStreamSubject(name)>>}
  /\ UNCHANGED <<resolveFrame, listing>>

\* GET /streams.
ListStreams ==
  /\ listing' = listStreams
  /\ UNCHANGED <<resolveFrame, resolved>>

NextResolve ==
  \/ \E name \in StreamNames : ResolveStream(name)
  \/ ListStreams

SpecResolve == Init /\ [][NextResolve]_vars

(* ---------------------- the dashboard client -------------------------- *)
\* EventSource objects a behaviour creates.
MaxSources == 2
\* setTimeout callbacks pending at a time.
MaxTimers == 1
\* Runs of messages a behaviour receives.
MaxBursts == 2

\* this.maxMessages = 100 (app.js:8).
maxMessages == 100

\* Messages arrive one at a time or as a run that fills a feed.
BurstSizes == {1, maxMessages}

RECURSIVE limitFeedSizeFirst(_)
\* Variant: the loop removes feed.firstChild.
limitFeedSizeFirst(feed) ==
  IF Len(feed) > maxMessages
    THEN limitFeedSizeFirst(SubSeq(feed, 2, Len(feed)))
    ELSE feed

RECURSIVE limitFeedSize(_)
\* while (feed.children.length > this.maxMessages)
\*   feed.removeChild(feed.lastChild)
limitFeedSize(feed) ==
  IF Len(feed) > maxMessages
    THEN limitFeedSize(SubSeq(feed, 1, Len(feed) - 1))
    ELSE feed

\* The five handle...Data functions, on the feed of their tab:
\* feed.insertBefore(element, feed.firstChild); this.limitFeedSize(feed).
handleData(fs, tab, item) ==
  [fs EXCEPT ![tab] = limitFeedSize(<<item>> \o @)]

\* handleMessage: the switch on this.currentStream picks the handler; a
\* value with no case renders nothing.
handleMessage(fs, item) ==
  IF currentStream \in Tabs THEN handleData(fs, currentStream, item) ELSE fs

RECURSIVE handleMessages(_, _, _)
\* handleMessage for the n messages first, first + 1, ... of a run, one
\* after the other: the first half of the run, then the rest.
handleMessages(fs, first, n) ==
  IF n = 0 THEN fs
  ELSE IF n = 1 THEN handleMessage(fs, first)
  ELSE LET half == n \div 2
           done == handleMessages(fs, first, half)
       IN  \* the test has the first half evaluated before the rest
           IF DOMAIN done = DOMAIN fs
             THEN handleMessages(done, first + half, n - half)
             ELSE done

\* The body of connect(): nothing when isConnected, else a new EventSource
\* on the current tab's stream, stored under that stream's key.
connect ==
  IF isConnected
    THEN UNCHANGED <<sources, eventSources>>
    ELSE /\ sources' = Append(sources, [stream |-> currentStream,
                                        readyState |-> "connecting"])
         /\ eventSources' = [eventSources EXCEPT
                               ![currentStream] = Len(sources) + 1]

\* The EventSource part of disconnect(): every stored source is closed and
\* the map is cleared.
closeStored ==
  /\ sources' = [i \in DOMAIN sources |->
                   IF \E s \in Tabs : eventSources[s] = i
                     THEN [sources[i] EXCEPT !.readyState = "closed"]
                     ELSE sources[i]]
  /\ eventSources' = [s \in Tabs |-> 0]

feedVars == <<feeds, messageCount, arrived, received, bursts, lastMessage>>
clientFrame == <<log, blocksVars, relayVars, pollVars, procVars>>

\* A click on the Connect button, which updateControls disables while
\* isConnected.
ClickConnect ==
  /\ ~isConnected
  /\ Len(sources) < MaxSources
  /\ connect
  /\ UNCHANGED <<currentStream, isConnected, timers, feedVars, clientFrame>>

\* A click on the Disconnect button, which updateControls enables while
\* isConnected.
ClickDisconnect ==
  /\ isConnected
  /\ closeStored
  /\ isConnected' = FALSE
  /\ UNCHANGED <<currentStream, timers, feedVars, clientFrame>>

\* switchTab(stream): the tab is shown; when connected, disconnect() and a
\* connect() 100 ms later.
switchTab(stream) ==
  /\ currentStream' = stream
  /\ IF isConnected
       THEN /\ timers < MaxTimers
            /\ closeStored
            /\ isConnected' = FALSE
            /\ timers' = timers + 1
       ELSE UNCHANGED <<sources, eventSources, isConnected, timers>>
  /\ UNCHANGED <<feedVars, clientFrame>>

\* The callback of setTimeout(() => this.connect(), 100) runs.
TimerFires ==
  /\ timers > 0
  /\ isConnected \/ Len(sources) < MaxSources
  /\ timers' = timers - 1
  /\ connect
  /\ UNCHANGED <<currentStream, isConnected, feedVars, clientFrame>>

\* eventSource.onopen of source i.
ESOpen(i) ==
  /\ sources[i].readyState = "connecting"
  /\ sources' = [sources EXCEPT ![i].readyState = "open"]
  /\ isConnected' = TRUE
  /\ UNCHANGED <<currentStream, eventSources, timers, feedVars, clientFrame>>

\* eventSource.onerror of source i. The handler does not close the source:
\* the browser reconnects it, or leaves it closed after a fatal error.
ESError(i, fatal) ==
  /\ sources[i].readyState \in {"connecting", "open"}
  /\ sources' = [sources EXCEPT
                   ![i].readyState = IF fatal THEN "closed" ELSE "connecting"]
  /\ isConnected' = FALSE
  /\ UNCHANGED <<currentStream, eventSources, timers, feedVars, clientFrame>>

\* eventSource.onmessage of source i, for a run of n messages.
ESMessages(i, n) ==
  /\ sources[i].readyState = "open"
  /\ bursts < MaxBursts
  /\ feeds' = handleMessages(feeds, received + 1, n)
  /\ messageCount' = messageCount + n
  /\ arrived' = [arrived EXCEPT
                   ![currentStream] = @ \o [k \in 1..n |-> received + k]]
  /\ received' = received + n
  /\ bursts' = bursts + 1
  /\ lastMessage' = [source |-> i, stream |-> sources[i].stream,
                     tab |-> currentStream]
  /\ UNCHANGED <<currentStream, isConnected, eventSources, sources, timers,
                 clientFrame>>

\* clearData(): a click on the Clear button.
clearData ==
  /\ feeds' = [s \in Tabs |-> <<>>]
  /\ messageCount' = 0
  /\ arrived' = [s \in Tabs |-> <<>>]
  /\ UNCHANGED <<currentStream, isConnected, eventSources, sources, timers,
                 received, bursts, lastMessage, clientFrame>>

\* The client with every event of its connections; messages come singly.
NextClient ==
  \/ ClickConnect
  \/ ClickDisconnect
  \/ \E stream \in Tabs : switchTab(stream)
  \/ TimerFires
  \/ \E i \in DOMAIN sources : ESOpen(i)
  \/ \E i \in DOMAIN sources, fatal \in BOOLEAN : ESError(i, fatal)
  \/ \E i \in DOMAIN sources : ESMessages(i, 1)
  \/ clearData

SpecClient == Init /\ [][NextClient]_vars

\* The first click on Connect of a session.
FirstConnect == sources = <<>> /\ ClickConnect

\* The feeds: one connection with its open and error events, the tabs,
\* runs of messages and the Clear button.
NextFeed ==
  \/ FirstConnect
  \/ \E stream \in Tabs : switchTab(stream)
  \/ \E i \in DOMAIN sources, fatal \in BOOLEAN : ESError(i, fatal)
  \/ \E i \in DOMAIN sources : ESOpen(i)
  \/ \E i \in DOMAIN sources, n \in BurstSizes : ESMessages(i, n)
  \/ clearData

SpecFeed == Init /\ [][NextFeed]_vars

\* The same, with one subscriber whose callback may hang for ever in a
\* write (a client that stopped reading): nothing is assumed of its steps.
SlowConn == "c1"

SlowRelay == SpecRelay /\ \A s \in Conns \ {SlowConn} : RelayFairness(s)

(* ------------------------------ helpers ------------------------------- *)
StrictlyIncreasing(seq) ==
  \A i, j \in DOMAIN seq : i < j => seq[i] < seq[j]

Range(seq) == {seq[i] : i \in DOMAIN seq}

Msgs(seq) == [i \in 1..Len(seq) |-> seq[i].msg]

IsWrite(e) == e.op = "write"

IsOkWrite(e) == e.op = "write" /\ e.ok

\* Messages connection s called Fprintf for, in call order.
WriteCalls(s) == Msgs(SelectSeq(trace[s], IsWrite))

\* Events that reached connection s, in order.
Written(s) == Msgs(SelectSeq(trace[s], IsOkWrite))

ErrorResults == {"readErr", "refetchErr", "publishErr"}

(* ------------------------- claims: Blocks job ------------------------- *)
\* C1: the block numbers of the messages published on eth.blocks.full are
\* strictly increasing, whatever heights the upstream returned and whichever
\* reads and publishes failed: no height is published twice.
C1_PublishedStrictlyIncreasing ==
  StrictlyIncreasing(log[BlocksSubject])

\* C1 witness: a height was published by one tick, read again by a later
\* tick, and the log holds one message.
C1_Witness ==
  /\ Len(log[BlocksSubject]) = 1
  /\ \E i, j \in DOMAIN ticks :
       /\ i < j
       /\ ticks[i].result = "published"
       /\ ticks[j].result = "skipped"
       /\ ticks[j].read = ticks[i].read

\* C2 (as claimed): a tick in which no call failed publishes a block
\* message if and only if the height it read is strictly greater than the
\* height of the most recently published block message.
C2_PublishIffAbovePublished ==
  \A i \in DOMAIN ticks :
    ticks[i].result \notin ErrorResults =>
      ((ticks[i].result = "published") <=> (ticks[i].read > ticks[i].pubBefore))

\* C3 (as claimed): a tick in which the head read, the re-fetch or the
\* publish failed leaves the cursor as it found it.
C3_FailedTickKeepsCursor ==
  \A i \in DOMAIN ticks :
    ticks[i].result \in ErrorResults => ticks[i].after = ticks[i].before

(* -------------------------- claims: the relay ------------------------- *)
\* C4: a relay never handles a message that was published before its
\* subscription was created: every message its callback wrote, flushed or
\* acknowledged was published at or after the subscription.
C4_NoReplay ==
  \A s \in Conns : \A i \in DOMAIN trace[s] : trace[s][i].msg >= subAt[s]

\* C4 witness: a subscriber that connected when its subject already held
\* messages has written a later one.
C4_Witness ==
  \E s \in Conns :
    /\ startSeq[s] > 1
    /\ Written(s) # <<>>

\* C5: for every subscriber, the callback calls Fprintf once for each
\* message the broker handed it, in publish order on the resolved subject,
\* and the events that reached the connection are a prefix of those calls
\* (all of them while the connection is open).
C5_WrittenInPublishOrder ==
  \A s \in Conns :
    LET wc == WriteCalls(s)
        w == Written(s)
        handed == nextSeq[s] - startSeq[s]
    IN /\ Len(wc) = IF cb[s] THEN handed - 1 ELSE handed
       /\ \A i \in 1..Len(wc) :
            /\ startSeq[s] + i - 1 <= Len(log[subject[s]])
            /\ wc[i] = log[subject[s]][startSeq[s] + i - 1]
       /\ Len(w) <= Len(wc)
       /\ \A i \in 1..Len(w) : w[i] = wc[i]
       /\ ~reqDone[s] => w = wc

\* C5 witness: a subscriber has written two events.
C5_Witness ==
  \E s \in Conns : Len(Written(s)) >= 2

\* C6: every message published on a subject after a subscription on it was
\* created is eventually written to that subscriber, unless the subscriber
\* disconnects first; this holds for each of two subscribers of one stream.
C6_EventuallyWritten ==
  \A s \in Conns : \A k \in 1..MaxPublished :
    [](( /\ sub[s] = "active"
         /\ startSeq[s] <= k
         /\ k <= Len(log[subject[s]]) )
       => <>( \/ reqDone[s]
              \/ /\ k <= Len(log[subject[s]])
                 /\ log[subject[s]][k] \in Range(Written(s)) ))

\* C6 witness: two subscribers of the same subject, connected at different
\* times, have each written the messages published since they connected.
C6_Witness ==
  \E s, o \in Conns :
    /\ subject[s] = subject[o]
    /\ sub[s] = "active" /\ sub[o] = "active"
    /\ startSeq[s] < startSeq[o]
    /\ startSeq[o] <= Len(log[subject[o]])
    /\ Written(s) = SubSeq(log[subject[s]], startSeq[s], Len(log[subject[s]]))
    /\ Written(o) = SubSeq(log[subject[o]], startSeq[o], Len(log[subject[o]]))

\* C7: while one subscriber's callback hangs, a poll job's publish is still
\* possible, and every other subscriber is still written every message
\* published after it subscribed (unless it disconnects).
C7_SlowSubscriberIsolated ==
  /\ [](nextId <= MaxPublished =>
          \A subj \in RelaySubjects : ENABLED PollPublish(subj))
  /\ \A s \in Conns \ {SlowConn} : \A k \in 1..MaxPublished :
       [](( /\ sub[s] = "active"
            /\ startSeq[s] <= k
            /\ k <= Len(log[subject[s]]) )
          => <>( \/ reqDone[s]
                 \/ /\ k <= Len(log[subject[s]])
                    /\ log[subject[s]][k] \in Range(Written(s)) ))

\* C7 witness: the slow subscriber is still in the write of a message while
\* another subscriber of the same subject has written a later one.
C7_Witness ==
  \E s \in Conns \ {SlowConn} :
    /\ cb[SlowConn]
    /\ subject[s] = subject[SlowConn]
    /\ \E m \in Range(Written(s)) : m > cur[SlowConn]

\* C8: a relay acknowledges a message only after its callback has called
\* the write and then the flush for that message.
C8_AckAfterWriteAndFlush ==
  \A s \in Conns : \A k \in DOMAIN trace[s] :
    trace[s][k].op = "ack" =>
      \E i, j \in DOMAIN trace[s] :
        /\ i < j /\ j < k
        /\ trace[s][i].op = "write" /\ trace[s][i].msg = trace[s][k].msg
        /\ trace[s][j].op = "flush" /\ trace[s][j].msg = trace[s][k].msg

\* C8 witness: a message was acknowledged.
C8_Witness ==
  \E s \in Conns : \E k \in DOMAIN trace[s] : trace[s][k].op = "ack"

\* C9: once a subscriber's request context is cancelled its handler
\* returns, and a handler that has returned holds no active subscription.
C9_TeardownOnDisconnect ==
  \A s \in Conns :
    /\ [](hpc[s] = "returned" => sub[s] # "active")
    /\ (reqDone[s] ~> hpc[s] = "returned")

\* C9 witness: a handler that had subscribed has returned and its
\* subscription is closed.
C9_Witness ==
  \E s \in Conns : hpc[s] = "returned" /\ sub[s] = "closed"

\* C10 (as claimed): after the shutdown signal every relay handler returns
\* and releases its subscription, whether or not its client disconnects.
C10_ShutdownEndsRelays ==
  \A s \in Conns :
    (s \in atSignal) ~> (hpc[s] = "returned" /\ sub[s] # "active")

\* C14: a job that is in a cycle (an upstream read or a publish is
\* outstanding) is back at its select after a bounded wait: the call is
\* given up at a timeout and the job goes on to its next tick.
C14_CallsBoundedByTimeout ==
  \A j \in Jobs : (jpc[j] \in {"read", "publish"}) ~> (jpc[j] = "select")

\* C11: after shutdown has begun every poll job leaves its loop, and a job
\* that has left performs no further read or publish.
C11_JobsLeaveAfterShutdown ==
  /\ ctxCancelled ~> (\A j \in Jobs : jpc[j] = "exited")
  /\ [](\A j \in Jobs : jpc[j] = "exited" => inflight[j] = 0)
  /\ [][\A j \in Jobs : jpc[j] = "exited" => jpc'[j] = "exited"]_vars

\* C12: the five poll jobs are independent. A job at its select can take
\* its tick whatever the other jobs are doing (failed, or inside a read that
\* never returns), and no step of the Pending, Logs, NetworkStats or
\* GasPrice job changes the cursor of the Blocks job.
C12_JobsIndependent ==
  /\ [](\A j \in Jobs : jpc[j] = "select" => ENABLED JobStartCycle(j))
  /\ [][\A j \in Jobs \ {"blocks"} :
          jpc'[j] # jpc[j] => lastBlockNumber' = lastBlockNumber]_vars

\* One job has failed, another is inside a read, a third has taken a tick
\* and reached its publish, and the Blocks cursor has moved.
C12_Witness ==
  \E f, k, j \in Jobs :
    /\ f # k /\ k # j /\ f # j
    /\ lastFail = f
    /\ jpc[k] = "read"
    /\ jpc[j] = "publish"
    /\ lastBlockNumber > 0

\* C13: there is one loop per stream kind, and a loop has at most one call
\* of its publish function running: while one runs, a tick starts no other.
C13_OneCycleInFlight ==
  /\ DOMAIN jpc = Jobs
  /\ \A j \in Jobs :
       /\ inflight[j] <= 1
       /\ inflight[j] = 1 => ~ENABLED JobStartCycle(j)

\* A cycle is running and has reached its publish.
C13_Witness == \E j \in Jobs : inflight[j] = 1 /\ jpc[j] = "publish"

\* C15: an error of a cycle ends neither the job nor the process. A loop
\* returns only on the cancelled context, a cycle that ends leaves the loop
\* at its select, and the job that failed can take its next tick.
C15_ErrorNeverTerminates ==
  /\ [](\A j \in Jobs : jpc[j] = "exited" => ctxCancelled)
  /\ [](lastFail # "none" /\ jpc[lastFail] = "select"
          => ENABLED JobStartCycle(lastFail))
  /\ [][\A j \in Jobs :
          (jpc[j] \in {"read", "publish"} /\ jpc'[j] \notin {"read", "publish"})
            => jpc'[j] = "select"]_vars

\* The job whose cycle failed last is inside a new cycle.
C15_Witness ==
  \E j \in Jobs : lastFail = j /\ jpc[j] = "read" /\ ~ctxCancelled

\* C16: a PendingTransactions cycle whose pool read succeeded submits
\* nothing for an empty pool, and for a pool of N > 0 entries exactly one
\* message to eth.pending, whose count is N and whose transactions are the
\* first min(N, 50) entries of the pool, in pool order.
C16_PendingCountAndFirst50 ==
  (cycle.job = "pending" /\ cycle.readOk) =>
    LET N == Len(cycle.pool)
        K == IF N < 50 THEN N ELSE 50
    IN  IF N = 0
          THEN cycle.out = <<>>
          ELSE /\ Len(cycle.out) = 1
               /\ cycle.out[1].subject = "eth.pending"
               /\ cycle.out[1].payload.count = N
               /\ Len(cycle.out[1].payload.transactions) = K
               /\ \A i \in 1..K :
                    cycle.out[1].payload.transactions[i] = cycle.pool[i]

\* A cycle with a pool above the limit has submitted its message.
C16_Witness ==
  /\ cycle.job = "pending" /\ cycle.readOk
  /\ Len(cycle.pool) > 50
  /\ cycle.out # <<>>

\* C17: in every Logs cycle, for every head (heads below 5 too), the lower
\* bound sent in the log query and published as fromBlock is
\* max(0, head - 5), and the published toBlock is the head read at the start
\* of the cycle.
C17_LogsWindow ==
  (cycle.job = "logs" /\ cycle.headOk) =>
    LET head == cycle.head[1]
        from == IF head < 5 THEN 0 ELSE head - 5
    IN  /\ cycle.query.fromBlock = HexString(<<from>>)
        /\ cycle.out # <<>> =>
             /\ cycle.out[1].payload.fromBlock = <<from>>
             /\ cycle.out[1].payload.toBlock = <<head>>

\* C18: a Logs cycle whose reads succeeded submits nothing when no log
\* matched, and for M > 0 matched logs exactly one message to eth.logs,
\* whose count is M and whose logs are the first min(M, 100) matched
\* entries, in order.
C18_LogsCountAndFirst100 ==
  (cycle.job = "logs" /\ cycle.headOk /\ cycle.readOk) =>
    LET M == Len(cycle.matched)
        K == IF M < 100 THEN M ELSE 100
    IN  IF M = 0
          THEN cycle.out = <<>>
          ELSE /\ Len(cycle.out) = 1
               /\ cycle.out[1].subject = "eth.logs"
               /\ cycle.out[1].payload.count = M
               /\ Len(cycle.out[1].payload.logs) = K
               /\ \A i \in 1..K :
                    cycle.out[1].payload.logs[i] = cycle.matched[i]

\* A cycle with more matched logs than the limit has submitted its message.
C18_Witness ==
  /\ cycle.job = "logs" /\ cycle.headOk /\ cycle.readOk
  /\ Len(cycle.matched) > 100
  /\ cycle.out # <<>>

\* C19: every NetworkStats cycle submits exactly one message to
\* eth.network whichever of its five reads fail; a field whose read failed
\* carries its zero value, a field whose read succeeded the value read.
C19_NetworkStatsAlwaysOne ==
  cycle.job = "network" =>
    /\ Len(cycle.out) = 1
    /\ cycle.out[1].subject = "eth.network"
    /\ \A f \in netFields :
         cycle.out[1].payload[f] =
           IF cycle.reads[f].ok THEN cycle.reads[f].v
           ELSE IF f = "syncing" THEN "null" ELSE ""

\* A cycle in which some reads failed and some succeeded.
C19_Witness ==
  /\ cycle.job = "network"
  /\ \E f, g \in netFields : ~cycle.reads[f].ok /\ cycle.reads[g].ok
  /\ cycle.out # <<>>

\* C20: for every raw gas price the upstream returns, those beyond 64 bits
\* too, the GasPrice message carries the raw value and the raw value
\* divided by 10^9; for the raw value 20000000000 the derived value is 20.
C20_GasPriceDerived ==
  (cycle.job = "gasPrice" /\ cycle.readOk) =>
    LET raw == cycle.raw
        msg == cycle.out[1].payload
    IN  /\ msg.gasPrice = BigString(raw)
        /\ msg.gwei.frac = raw[1]
        /\ msg.gwei.whole = IF Len(raw) = 1 THEN <<0>> ELSE Tail(raw)
        /\ raw = <<0, 20>> =>
             /\ msg.gasPrice = <<2, 0, 0, 0, 0, 0, 0, 0, 0, 0, 0>>
             /\ msg.gwei = [whole |-> <<20>>, frac |-> 0]

(* ------------------- claims: resolver and directory ------------------- *)
\* C21 (as claimed): the resolver maps blocks, pending, logs, network,
\* gasPrice and blocks-simple to their subjects and every other name, the
\* empty one too, to the default eth.blocks.full.
C21_ResolverTable ==
  \A r \in resolved :
    r[2] = CASE r[1] = "blocks" -> "eth.blocks.full"
             [] r[1] = "pending" -> "eth.pending"
             [] r[1] = "logs" -> "eth.logs"
             [] r[1] = "network" -> "eth.network"
             [] r[1] = "gasPrice" -> "eth.gasPrice"
             [] r[1] = "blocks-simple" -> "eth.blocks"
             [] OTHER -> "eth.blocks.full"

\* C21 (amended): as claimed, with the alias gas resolving to eth.gasPrice
\* like gasPrice; every name other than these seven resolves to the default.
C21_ResolverTableWithAlias ==
  \A r \in resolved :
    r[2] = CASE r[1] = "blocks" -> "eth.blocks.full"
             [] r[1] = "pending" -> "eth.pending"
             [] r[1] = "logs" -> "eth.logs"
             [] r[1] = "network" -> "eth.network"
             [] r[1] = "gasPrice" -> "eth.gasPrice"
             [] r[1] = "gas" -> "eth.gasPrice"
             [] r[1] = "blocks-simple" -> "eth.blocks"
             [] OTHER -> "eth.blocks.full"

\* Every name has been resolved, the alias, the empty name and an unknown
\* name among them.
C21_Witness == {r[1] : r \in resolved} = StreamNames

\* C29: the directory of /streams agrees with the resolver: every listed
\* name resolves to the subject its description names, and every name the
\* resolver has a case for is listed.
C29_DirectoryAgrees ==
  listing # <<>> =>
    /\ \A name \in DOMAIN listing :
         getStreamSubject(name) = listing[name].subject
    /\ \A r \in resolved : r[1] \in resolverCases => r[1] \in DOMAIN listing

(* --------------------- claims: one tick of a job ---------------------- *)
\* C22: every message a poll job submits goes to one subject, the job's
\* own: Blocks to eth.blocks.full, PendingTransactions to eth.pending, Logs
\* to eth.logs, NetworkStats to eth.network, GasPrice to eth.gasPrice; no
\* two jobs share a subject.
C22_OwnSubject ==
  cycle.job # "none" =>
    \A i \in DOMAIN cycle.out :
      /\ cycle.out[i].subject \in Subjects
      /\ cycle.out[i].subject =
           CASE cycle.job = "blocks" -> "eth.blocks.full"
             [] cycle.job = "pending" -> "eth.pending"
             [] cycle.job = "logs" -> "eth.logs"
             [] cycle.job = "network" -> "eth.network"
             [] cycle.job = "gasPrice" -> "eth.gasPrice"

\* A Blocks cycle has submitted its message (after cycles of other jobs,
\* or before).
C22_Witness == cycle.job = "blocks" /\ cycle.out # <<>>

\* C27: a tick of a poll job submits at most one message, and a cycle that
\* fails stops at the call that failed: no read and no publish follows it
\* within the tick.
C27_AtMostOneNoRetry ==
  cycle.job # "none" =>
    /\ Len(cycle.out) <= 1
    /\ Len(cycle.calls) >= 1
    /\ cycle.err => ~cycle.calls[Len(cycle.calls)].ok
    /\ cycle.job # "network" =>
         \A i \in 1..(Len(cycle.calls) - 1) : cycle.calls[i].ok

\* A cycle whose publish failed.
C27_Witness ==
  /\ cycle.job # "none" /\ cycle.err
  /\ Len(cycle.out) = 1 /\ ~cycle.out[1].ok

\* C23: the Blocks job feeds the simple subject too: when a tick has
\* published a new block on eth.blocks.full, eth.blocks holds a message for
\* it, which a subscriber of blocks-simple is then owed.
C23_SimpleSubjectFed ==
  bpc = "idle" => Len(log["eth.blocks"]) = Len(log["eth.blocks.full"])

(* --------------------------- claims: startup -------------------------- *)
\* C24: when an initial connection (upstream, broker) or the creation of a
\* stream fails, the process ends and has started no poll job and accepted
\* no subscriber; jobs and the subscriber endpoint start only after all of
\* these succeeded.
C24_StartupGate ==
  LET steps == {"rpcDial", "ethDial", "natsConnect", "jetStream",
                "streamInfo", "addStream"}
      failed == \E i \in DOMAIN bootLog :
                  bootLog[i].step \in steps /\ ~bootLog[i].ok
      connected == \A c \in {"rpcDial", "ethDial", "natsConnect", "jetStream"} :
                     \E i \in DOMAIN bootLog :
                       bootLog[i].step = c /\ bootLog[i].ok
      streamsUp == \A n \in {"ETH_BLOCKS", "ETH_TRANSACTIONS", "ETH_LOGS",
                             "ETH_NETWORK"} :
                     \E i \in DOMAIN bootLog :
                       /\ bootLog[i].step \in {"streamInfo", "addStream"}
                       /\ bootLog[i].stream = n
                       /\ bootLog[i].ok
      running == jobsStarted \/ serving \/ cycles > 0 \/ accepted > 0
  IN  /\ failed => spc = "fatal" /\ ~running
      /\ running => connected /\ streamsUp /\ ~failed

\* The creation of the third stream failed, after two were set up.
C24_Witness ==
  /\ spc = "fatal"
  /\ \E i \in DOMAIN bootLog :
       /\ bootLog[i].step = "addStream" /\ ~bootLog[i].ok
       /\ bootLog[i].stream = "ETH_LOGS"

(* ------------------------ claims: failed publish ---------------------- *)
\* C25: a message whose publish failed is dropped. When a call of a publish
\* function returns, the loop is back at its select and nothing of the job
\* is left running; a job reaches js.Publish only through the read of a
\* cycle, and a read only through a tick taken at the select.
C25_FailedPublishDropped ==
  /\ [][\A j \in Jobs :
          inflight'[j] < inflight[j] => jpc'[j] = "select" /\ inflight'[j] = 0]_vars
  /\ [][\A j \in Jobs :
          (jpc'[j] = "publish" /\ jpc[j] # "publish") => jpc[j] = "read"]_vars
  /\ [][\A j \in Jobs :
          (jpc'[j] = "read" /\ jpc[j] # "read") => jpc[j] = "select"]_vars

\* The job whose cycle failed last has read anew and is at its publish.
C25_Witness ==
  \E j \in Jobs : lastFail = j /\ jpc[j] = "publish" /\ ~ctxCancelled

(* ------------------------ claims: at-least-once ----------------------- *)
\* C26 (as claimed): a relay acknowledges a message only if the write and
\* the flush of that message to the subscriber succeeded, so a message
\* whose write failed stays unacknowledged.
C26_AckOnlyIfWritten ==
  \A s \in Conns : \A k \in DOMAIN trace[s] :
    trace[s][k].op = "ack" =>
      \E i, j \in DOMAIN trace[s] :
        /\ i < j /\ j < k
        /\ trace[s][i].op = "write" /\ trace[s][i].msg = trace[s][k].msg
        /\ trace[s][i].ok
        /\ trace[s][j].op = "flush" /\ trace[s][j].msg = trace[s][k].msg
        /\ trace[s][j].ok

(* ------------------------ claims: Blocks cursor ----------------------- *)
\* C28: the Blocks cursor never decreases, and a tick that reads a head
\* height at or below the cursor ends in the step of its head read: the
\* cursor and the subject are as before, and the job has gone through no
\* second fetch and no publish.
C28_CursorMonotoneSkip ==
  /\ [][lastBlockNumber' >= lastBlockNumber]_vars
  /\ [][(/\ Len(ticks') > Len(ticks)
         /\ ticks'[Len(ticks')].result # "readErr"
         /\ ticks'[Len(ticks')].read <= ticks'[Len(ticks')].before)
        => /\ ticks'[Len(ticks')].result = "skipped"
           /\ bpc = "idle" /\ bpc' = "idle"
           /\ lastBlockNumber' = lastBlockNumber
           /\ lastBlockNumber = ticks'[Len(ticks')].before
           /\ log' = log]_vars

\* A tick read a height lower than the cursor and skipped; the cursor has
\* moved on since.
C28_Witness ==
  \E k \in DOMAIN ticks :
    /\ ticks[k].result = "skipped"
    /\ ticks[k].read < ticks[k].before
    /\ lastBlockNumber > ticks[k].before

(* ------------------------ claims: Logs range -------------------------- *)
\* C30 (as claimed): every log entry of a published Logs message has a
\* block number between the fromBlock and the toBlock of that message,
\* also when the chain has grown between the head read and the query.
C30_LogsInReportedRange ==
  (cycle.job = "logs" /\ cycle.out # <<>> /\ ~cycle.err) =>
    LET payload == cycle.out[1].payload
    IN  \A i \in DOMAIN payload.logs :
          /\ ~BigLess(payload.logs[i].blockNumber, payload.fromBlock)
          /\ ~BigLess(payload.toBlock, payload.logs[i].blockNumber)

(* ------------------------ claims: late callback ----------------------- *)
\* C31 (as claimed): once a subscriber's handler has returned, no callback
\* writes, flushes or acknowledges for that connection any more.
C31_NoCallAfterReturn ==
  [][\A s \in Conns : hpc[s] = "returned" => trace'[s] = trace[s]]_vars

(* ------------------------ claims: failed subscribe -------------------- *)
\* C32 (as claimed): a handler whose js.Subscribe failed ends the request;
\* it is never at the wait for the client's disconnect with no
\* subscription.
C32_FailedSubscribeEndsRequest ==
  \A s \in Conns : hpc[s] = "waiting" => sub[s] # "nil"

(* ------------------------ claims: the dashboard ----------------------- *)
\* C33: every feed holds at most maxMessages items, the most recently
\* received first: a feed is the last min(n, 100) of the n items that
\* arrived for it since the last clear, newest first.
C33_FeedNewestFirstAtMost100 ==
  \A s \in Tabs :
    LET n == Len(arrived[s])
        k == IF n < maxMessages THEN n ELSE maxMessages
    IN  /\ Len(feeds[s]) <= maxMessages
        /\ Len(feeds[s]) = k
        /\ \A i \in 1..k : feeds[s][i] = arrived[s][n - i + 1]

\* A feed has had more than maxMessages items and is full.
C33_Witness ==
  \E s \in Tabs :
    Len(arrived[s]) > maxMessages /\ Len(feeds[s]) = maxMessages

\* C34 (as claimed): at most one EventSource has been created and not
\* closed, and every such EventSource is stored in eventSources, where
\* disconnect() finds it.
C34_OneSourceAndStored ==
  LET live == {i \in DOMAIN sources : sources[i].readyState # "closed"}
  IN  /\ Cardinality(live) <= 1
      /\ \A i \in live : \E s \in Tabs : eventSources[s] = i

\* C35 (as claimed): a message is rendered by the handler of the stream
\* whose connection delivered it: when it arrives, currentStream is the
\* stream of its EventSource.
C35_RenderedByOwnHandler ==
  lastMessage.source # 0 => lastMessage.tab = lastMessage.stream

====
